---- MODULE Spec2Model ----
(***************************************************************************)
(* A model of src/src/RoomInvite.js (the start-chat flow and the direct    *)
(* chat selector) and of asyncAction (src/unnamed/part_000).               *)
(*                                                                         *)
(* Four specifications share the module:                                   *)
(*   SpecSelect  one call of _selectDirectChat, one room per step          *)
(*   SpecAsync   concurrent invocations of asyncAction-created functions   *)
(*   SpecChat    one run of _onStartChatFinished                           *)
(*   SpecInvite  one run of _onRoomInviteFinished                          *)
(***************************************************************************)
EXTENDS Integers, Sequences, FiniteSets, TLC

\* ------------------------------------------------------------------------
\* Bounds
\* ------------------------------------------------------------------------
MaxRooms == 2
MaxDate == 1
MaxInv == 2
MaxAddrs == 2

\* ------------------------------------------------------------------------
\* Values of the messaging client's data
\* ------------------------------------------------------------------------
Me == "me"
Users == {"me", "u1", "u2"}
Memberships == {"join", "invite", "leave"}
Null == -1
NullStatus == "null"
NullResult == [isNull |-> TRUE]

\* A room: the membership map currentState.members, the value of
\* getMyMembership(), and the m.room.create state events (their
\* origin_server_ts), of which only the first is read.  A room's id is its
\* index in rooms.
\*
\* The rooms considered: the two-party rooms of the caller and u1 with every
\* pair of memberships, a two-party room of the caller and u2, and rooms of
\* all three users (u1 joined or gone).  getMyMembership() is the caller's
\* entry of the membership map.  A room has no create event or one with a
\* timestamp in 1..MaxDate.
MemberMaps ==
    {[u \in {"me", "u1"} |-> IF u = "me" THEN p[1] ELSE p[2]] :
        p \in Memberships \X Memberships}
    \cup {[u \in {"me", "u2"} |-> "join"]}
    \cup {[u \in Users |-> IF u = "u1" THEN m ELSE "join"] : m \in {"join", "leave"}}

CreateEvents == {<<>>} \cup {<<t>> : t \in 1..MaxDate}

RoomPool ==
    {[members |-> mm, myMembership |-> mm["me"], createEvents |-> ce] :
        mm \in MemberMaps, ce \in CreateEvents}

\* the room lists of length k
RoomLists(k) == [1..k -> RoomPool]

VARIABLES
    rooms,          \* matrixClient.getRooms(), in enumeration order
    userId,         \* the argument of _selectDirectChat
    roomList,       \* the rooms kept by _getDirectMessageRooms (indices into rooms)
    idx,            \* position of the forEach in roomList
    selectedRoom,   \* the best-so-far candidate of the scan
    result,         \* the value _selectDirectChat returns
    spc,            \* position of the call: "start", "scan", "done", "threw"
    inv,            \* the invocations of asyncAction-created functions
    chat,           \* the run of _onStartChatFinished
    rinv            \* the run of _onRoomInviteFinished

selVars == <<userId, roomList, idx, selectedRoom, result, spc>>
vars == <<rooms, selVars, inv, chat, rinv>>

\* the selection before any room is looked at
EmptySelection == [room |-> Null, status |-> NullStatus, date |-> Null, weight |-> 0]

\* no call of _selectDirectChat has begun
SelectIdle ==
    /\ roomList = <<>>
    /\ idx = 0
    /\ selectedRoom = EmptySelection
    /\ result = NullResult
    /\ spc = "start"

\* ------------------------------------------------------------------------
\* asyncAction
\* ------------------------------------------------------------------------
Inv == 1..MaxInv
Ids == {"foo", "bar"}
Values == {42, 43}
Errors == {"bad"}
Suffixes == {"pending", "success", "failure"}
DispatchError == "dispatch raised"
FnError == "fn raised"
NoValue == "undefined"
NotCalled == -1
FnKinds == {"promise", "never", "raises"}
\* the dispatch callbacks: one that never raises, and one for each suffix
\* that raises on the actions of that suffix
DispatchKinds == {{}} \cup {{x} : x \in Suffixes}

Pending == [state |-> "pending"]
Fulfilled(v) == [state |-> "fulfilled", value |-> v]
Rejected(e) == [state |-> "rejected", value |-> e]

\* An invocation of the function returned by asyncAction(id, fn):
\*   id, fn, dispatch  what the closure holds: the id, whether fn returns a
\*                     promise that settles ("promise"), one that never
\*                     settles ("never") or raises ("raises"), and the
\*                     suffixes dispatch raises on
\*   fnCalledAt  the number of actions dispatched when fn() was called,
\*               NotCalled while it has not been
\*   pc       "idle", "waiting" (returned, fn's promise pending), "threw"
\*            (raised to its caller), "settled", "chained", "done"
\*   p1       the promise fn() returned
\*   p2       the promise p1.then(...) returned
\*   p3       the promise p2.catch(...) returned
\*   log      the actions passed to dispatch, in order
\*   raised   what the call raised to its caller
IdleInvocation ==
    [pc |-> "idle", id |-> "none", fn |-> "none", dispatch |-> {},
     p1 |-> Pending, p2 |-> Pending, p3 |-> Pending,
     log |-> <<>>, raised |-> NoValue, fnCalledAt |-> NotCalled]

AsyncIdle == inv = [i \in Inv |-> IdleInvocation]

ClosureId(i) == inv[i].id

PendingAction(id) == [action |-> <<id, "pending">>]
SuccessAction(id, res) == [action |-> <<id, "success">>, result |-> res]
FailureAction_asResult(id, e) == [action |-> <<id, "failure">>, result |-> e]
FailureAction(id, e) == [action |-> <<id, "failure">>, err |-> e]

\* dispatch(action) as called by invocation i: the call is made, and raises
\* when the callback raises on actions of that suffix
DispatchRaises(c, suffix) == suffix \in c.dispatch

\* A variant that calls fn() before it dispatches the pending action.
Invoke_fnFirst(i, id, fn, d) ==
    /\ inv[i].pc = "idle"
    /\ LET c == [inv[i] EXCEPT !.id = id, !.fn = fn, !.dispatch = d,
                               !.fnCalledAt = 0]
           p == [c EXCEPT !.log = <<PendingAction(id)>>]
       IN inv' = [inv EXCEPT ![i] =
            IF fn = "raises"
            THEN [c EXCEPT !.pc = "threw", !.raised = FnError]
            ELSE IF DispatchRaises(p, "pending")
            THEN [p EXCEPT !.pc = "threw", !.raised = DispatchError]
            ELSE [p EXCEPT !.pc = "waiting"]]
    /\ UNCHANGED <<rooms, selVars, chat, rinv>>

\* A variant that catches what fn() raises and reports it as a failure.
Invoke_catchesSync(i, id, fn, d) ==
    /\ inv[i].pc = "idle"
    /\ LET c == [inv[i] EXCEPT !.id = id, !.fn = fn, !.dispatch = d,
                               !.log = <<PendingAction(id)>>]
           called == [c EXCEPT !.fnCalledAt = Len(c.log)]
       IN inv' = [inv EXCEPT ![i] =
            IF DispatchRaises(c, "pending")
            THEN [c EXCEPT !.pc = "threw", !.raised = DispatchError]
            ELSE IF fn = "raises"
            THEN [called EXCEPT !.pc = "done",
                                !.log = Append(@, FailureAction(id, FnError))]
            ELSE [called EXCEPT !.pc = "waiting"]]
    /\ UNCHANGED <<rooms, selVars, chat, rinv>>

\* The function returned by asyncAction(id, fn), called with dispatch d:
\* dispatch(pending), then fn(), then the handlers are attached.
Invoke(i, id, fn, d) ==
    /\ inv[i].pc = "idle"
    /\ LET c == [inv[i] EXCEPT !.id = id, !.fn = fn, !.dispatch = d,
                               !.log = <<PendingAction(id)>>]
           called == [c EXCEPT !.fnCalledAt = Len(c.log)]
       IN inv' = [inv EXCEPT ![i] =
            IF DispatchRaises(c, "pending")
            THEN [c EXCEPT !.pc = "threw", !.raised = DispatchError]
            ELSE IF fn = "raises"
            THEN [called EXCEPT !.pc = "threw", !.raised = FnError]
            ELSE [called EXCEPT !.pc = "waiting"]]
    /\ UNCHANGED <<rooms, selVars, chat, rinv>>

\* The promise returned by fn() settles.
Settle(i, outcome) ==
    /\ inv[i].pc = "waiting"
    /\ inv[i].fn = "promise"
    /\ inv' = [inv EXCEPT ![i].p1 = outcome, ![i].pc = "settled"]
    /\ UNCHANGED <<rooms, selVars, chat, rinv>>

\* A variant that does not wait for the promise of fn() to settle.
ThenReaction_eager(i) ==
    /\ inv[i].pc \in {"waiting", "settled"}
    /\ LET c == inv[i]
       IN inv' = [inv EXCEPT ![i] =
            IF c.p1.state # "rejected"
            THEN [c EXCEPT
                    !.log = Append(c.log, SuccessAction(ClosureId(i),
                               IF c.p1.state = "fulfilled" THEN c.p1.value ELSE NoValue)),
                    !.p2 = IF DispatchRaises(c, "success")
                           THEN Rejected(DispatchError)
                           ELSE Fulfilled(NoValue),
                    !.pc = "chained"]
            ELSE [c EXCEPT !.p2 = c.p1, !.pc = "chained"]]
    /\ UNCHANGED <<rooms, selVars, chat, rinv>>

\* The reaction registered by .then((result) => dispatch(success)).
ThenReaction(i) ==
    /\ inv[i].pc = "settled"
    /\ LET c == inv[i]
       IN inv' = [inv EXCEPT ![i] =
            IF c.p1.state = "fulfilled"
            THEN [c EXCEPT
                    !.log = Append(c.log, SuccessAction(ClosureId(i), c.p1.value)),
                    !.p2 = IF DispatchRaises(c, "success")
                           THEN Rejected(DispatchError)
                           ELSE Fulfilled(NoValue),
                    !.pc = "chained"]
            ELSE [c EXCEPT !.p2 = c.p1, !.pc = "chained"]]
    /\ UNCHANGED <<rooms, selVars, chat, rinv>>

\* The reaction registered by .catch((err) => dispatch(failure)).
CatchReaction(i) ==
    /\ inv[i].pc = "chained"
    /\ LET c == inv[i]
       IN inv' = [inv EXCEPT ![i] =
            IF c.p2.state = "rejected"
            THEN [c EXCEPT
                    !.log = Append(c.log, FailureAction(ClosureId(i), c.p2.value)),
                    !.p3 = IF DispatchRaises(c, "failure")
                           THEN Rejected(DispatchError)
                           ELSE Fulfilled(NoValue),
                    !.pc = "done"]
            ELSE [c EXCEPT !.p3 = c.p2, !.pc = "done"]]
    /\ UNCHANGED <<rooms, selVars, chat, rinv>>

\* ------------------------------------------------------------------------
\* _getDirectMessageRooms
\* ------------------------------------------------------------------------
\* A variant that does not look for the target among the members.
IsDirectMessageRoom_anyPeer(r, addr) ==
    LET users == DOMAIN r.members
    IN Cardinality(users) = 2 /\ Me \in users

IsDirectMessageRoom(r, addr) ==
    LET users == DOMAIN r.members
    IN Cardinality(users) = 2 /\ addr \in users /\ Me \in users

\* rooms.filter(...) over the rooms from index i on; keeps the order
RECURSIVE FilterFrom(_, _, _)
FilterFrom(rs, i, addr) ==
    IF i > Len(rs) THEN <<>>
    ELSE (IF IsDirectMessageRoom(rs[i], addr) THEN <<i>> ELSE <<>>)
         \o FilterFrom(rs, i + 1, addr)

_getDirectMessageRooms(rs, addr) == FilterFrom(rs, 1, addr)

\* ------------------------------------------------------------------------
\* _selectDirectChat
\* ------------------------------------------------------------------------

RoomCreateEventDate(r) ==
    IF Len(r.createEvents) > 0 THEN r.createEvents[1] ELSE 0

DateLess_orEqual(d, bd) == IF bd = Null THEN d <= 0 ELSE d <= bd
\* roomCreateEventDate < selectedRoom.date; a null date compares as 0
DateLess(d, bd) == IF bd = Null THEN d < 0 ELSE d < bd

Replaces(sel, w, d) ==
    sel.weight < w \/ (sel.weight = w /\ DateLess(d, sel.date))

Rank_swapped(my, his) ==
    IF my = "join" /\ his = "join" THEN [status |-> "join-join", weight |-> 4]
    ELSE IF my = "join" /\ his = "invite" THEN [status |-> "invite-join", weight |-> 3]
    ELSE IF my = "invite" /\ his = "join" THEN [status |-> "join-invite", weight |-> 2]
    ELSE IF my = "join" /\ his = "leave" THEN [status |-> "join-leave", weight |-> 1]
    ELSE [status |-> NullStatus, weight |-> 0]

\* The four ranked membership pairs of lines 221-249; weight 0 is the else
\* branch of line 250.
Rank(my, his) ==
    IF my = "join" /\ his = "join" THEN [status |-> "join-join", weight |-> 4]
    ELSE IF my = "invite" /\ his = "join" THEN [status |-> "invite-join", weight |-> 3]
    ELSE IF my = "join" /\ his = "invite" THEN [status |-> "join-invite", weight |-> 2]
    ELSE IF my = "join" /\ his = "leave" THEN [status |-> "join-leave", weight |-> 1]
    ELSE [status |-> NullStatus, weight |-> 0]

\* The body of the forEach callback for the room at index i of rs.
ScanStep(sel, rs, i, u) ==
    LET r == rs[i]
        k == Rank(r.myMembership, r.members[u])
        d == RoomCreateEventDate(r)
    IN IF k.weight > 0
       THEN IF Replaces(sel, k.weight, d)
            THEN [room |-> i, status |-> k.status, date |-> d, weight |-> k.weight]
            ELSE sel
       ELSE EmptySelection

SelectResult(sel) ==
    IF sel.room # Null /\ sel.status # NullStatus /\ sel.date # Null
    THEN sel ELSE NullResult

RECURSIVE ScanFrom(_, _, _, _, _)
ScanFrom(sel, rs, lst, j, u) ==
    IF j > Len(lst) THEN sel
    ELSE ScanFrom(ScanStep(sel, rs, lst[j], u), rs, lst, j + 1, u)

_selectDirectChat(rs, u) ==
    SelectResult(ScanFrom(EmptySelection, rs, _getDirectMessageRooms(rs, u), 1, u))

\* ------------------------------------------------------------------------
\* SpecSelect: one call of _selectDirectChat(userId), one room per step
\* ------------------------------------------------------------------------
SelectStart ==
    /\ spc = "start"
    /\ roomList' = _getDirectMessageRooms(rooms, userId)
    /\ idx' = 1
    /\ selectedRoom' = EmptySelection
    /\ spc' = "scan"
    /\ UNCHANGED <<rooms, userId, result, inv, chat, rinv>>

ScanRoom ==
    /\ spc = "scan"
    /\ idx <= Len(roomList)
    /\ IF userId \in DOMAIN rooms[roomList[idx]].members
       THEN /\ selectedRoom' = ScanStep(selectedRoom, rooms, roomList[idx], userId)
            /\ idx' = idx + 1
            /\ spc' = "scan"
       ELSE \* him is undefined: reading him.membership raises
            /\ spc' = "threw"
            /\ UNCHANGED <<selectedRoom, idx>>
    /\ UNCHANGED <<rooms, userId, roomList, result, inv, chat, rinv>>

SelectFinish ==
    /\ spc = "scan"
    /\ idx > Len(roomList)
    /\ result' = SelectResult(selectedRoom)
    /\ spc' = "done"
    /\ UNCHANGED <<rooms, userId, roomList, idx, selectedRoom, inv, chat, rinv>>

\* ------------------------------------------------------------------------
\* _inviteToRoom and _onStartChatFinished
\* ------------------------------------------------------------------------
\* The addresses the picker can hand over, and what getAddressType says of
\* each: two user ids, an email address, and a text that is neither.
Addresses == {"u1", "me", "e1", "x"}
getAddressType(addr) ==
    IF addr \in {"u1", "me"} THEN "mx-user-id"
    ELSE IF addr = "e1" THEN "email"
    ELSE "none"

AddressRecords ==
    {[address |-> a, addressType |-> getAddressType(a), isKnown |-> k] :
        a \in Addresses, k \in BOOLEAN}
AddrLists == {<<>>} \cup {<<a>> : a \in AddressRecords}

\* What lookupThreePid resolves with: an empty object or one naming a user.
EmptyRes == [empty |-> TRUE]
LookupResults == {EmptyRes} \cup {[mxid |-> u] : u \in {"u1", "me"}}

Unsupported == <<"throw", "Unsupported address">>

\* A variant that treats every address that is not an email as a user id.
_inviteToRoom_noCheck(roomId, addr) ==
    IF getAddressType(addr) = "email" THEN <<"inviteByEmail", roomId, addr>>
    ELSE <<"invite", roomId, addr>>

\* The client call _inviteToRoom(roomId, addr) makes, or the error it raises.
_inviteToRoom(roomId, addr) ==
    IF getAddressType(addr) = "email" THEN <<"inviteByEmail", roomId, addr>>
    ELSE IF getAddressType(addr) = "mx-user-id" THEN <<"invite", roomId, addr>>
    ELSE Unsupported

\* The run of _onStartChatFinished:
\*   pc          "idle", "lookup", "joining", "creating", "inviting", "done"
\*   addrTexts   the first address
\*   invited     invitedUserId
\*   selected    what _selectDirectChat returned
\*   calls       the calls made on the client and createRoom, in order
\*   dispatched  the actions passed to dis.dispatch, in order
\*   dialogs     the titles of the error dialogs created, in order
\*   settled     how the awaited call of the current pc settled
ChatStart ==
    [pc |-> "idle", addrTexts |-> "none", invited |-> "none",
     selected |-> NullResult, calls |-> <<>>, dispatched |-> <<>>,
     dialogs |-> <<>>, settled |-> "none"]

ChatIdle == chat = ChatStart

ViewRoom(roomId) == [action |-> "view_room", room_id |-> roomId]

StartChat(shouldInvite, addrs) ==
    /\ chat.pc = "idle"
    /\ LET \* addrs.map(...)[0] is undefined for an empty list
           none == Len(addrs) = 0
           addrTexts == IF none THEN "undefined" ELSE addrs[1].address
           addrType == IF none THEN "undefined" ELSE addrs[1].addressType
           known == ~none /\ addrs[1].isKnown = TRUE
           unknown == ~none /\ addrs[1].isKnown = FALSE
       IN chat' =
            IF ~shouldInvite THEN [chat EXCEPT !.pc = "done"]
            ELSE IF known
            THEN [chat EXCEPT !.pc = "lookup", !.addrTexts = addrTexts,
                     !.calls = Append(@, <<"lookupThreePid", addrType, addrTexts>>)]
            ELSE IF unknown /\ addrType = "email"
            THEN [chat EXCEPT !.pc = "done", !.addrTexts = addrTexts]
            ELSE [chat EXCEPT !.pc = "done", !.addrTexts = addrTexts,
                     !.dialogs = Append(@, "Failed to invite user")]
    /\ UNCHANGED <<rooms, selVars, inv, rinv>>

\* lookupThreePid resolves with res: the .then callback of line 108.
LookupResolves(res) ==
    /\ chat.pc = "lookup"
    /\ LET invitedUserId == IF res = EmptyRes THEN chat.addrTexts ELSE res.mxid
           sel == _selectDirectChat(rooms, invitedUserId)
           roomStatus == IF sel # NullResult THEN sel.status ELSE NullStatus
           c == [chat EXCEPT !.invited = invitedUserId, !.selected = sel,
                             !.settled = "resolved"]
       IN chat' =
            CASE roomStatus = "join-join" ->
                    [c EXCEPT !.pc = "done",
                              !.dispatched = Append(@, ViewRoom(sel.room))]
              [] roomStatus = "invite-join" ->
                    [c EXCEPT !.pc = "joining", !.settled = "none",
                              !.calls = Append(@, <<"joinRoom", sel.room>>)]
              [] roomStatus = "join-invite" ->
                    [c EXCEPT !.pc = "done",
                              !.dispatched = Append(@, ViewRoom(sel.room))]
              [] roomStatus = "join-leave" ->
                    IF _inviteToRoom(sel.room, chat.addrTexts) = Unsupported
                    THEN \* the error reaches the .catch of line 163
                         [c EXCEPT !.pc = "done",
                                   !.dialogs = Append(@, "Failed to invite user")]
                    ELSE [c EXCEPT !.pc = "inviting", !.settled = "none",
                                   !.calls = Append(@, _inviteToRoom(sel.room, chat.addrTexts)),
                                   !.dispatched = Append(@, ViewRoom(sel.room))]
              [] OTHER ->
                    [c EXCEPT !.pc = "creating", !.settled = "none",
                              !.calls = Append(@, <<"createRoom", chat.addrTexts>>)]
    /\ UNCHANGED <<rooms, selVars, inv, rinv>>

\* lookupThreePid rejects: the .catch of line 163.
LookupRejects ==
    /\ chat.pc = "lookup"
    /\ chat' = [chat EXCEPT !.pc = "done", !.settled = "rejected",
                            !.dialogs = Append(@, "Failed to invite user")]
    /\ UNCHANGED <<rooms, selVars, inv, rinv>>

JoinResolves ==
    /\ chat.pc = "joining"
    /\ chat' = [chat EXCEPT !.pc = "done", !.settled = "resolved",
                            !.dispatched = Append(@, ViewRoom(chat.selected.room))]
    /\ UNCHANGED <<rooms, selVars, inv, rinv>>

\* A variant that shows the room although joining it failed.
JoinRejects_viewsRoom ==
    /\ chat.pc = "joining"
    /\ chat' = [chat EXCEPT !.pc = "done", !.settled = "rejected",
                            !.dialogs = Append(@, "Failed to join room"),
                            !.dispatched = Append(@, ViewRoom(chat.selected.room))]
    /\ UNCHANGED <<rooms, selVars, inv, rinv>>

JoinRejects ==
    /\ chat.pc = "joining"
    /\ chat' = [chat EXCEPT !.pc = "done", !.settled = "rejected",
                            !.dialogs = Append(@, "Failed to join room")]
    /\ UNCHANGED <<rooms, selVars, inv, rinv>>

\* The promise of the re-invite settles; nothing is attached to it.
InviteSettles(how) ==
    /\ chat.pc = "inviting"
    /\ chat' = [chat EXCEPT !.pc = "done", !.settled = how]
    /\ UNCHANGED <<rooms, selVars, inv, rinv>>

CreateResolves ==
    /\ chat.pc = "creating"
    /\ chat' = [chat EXCEPT !.pc = "done", !.settled = "resolved"]
    /\ UNCHANGED <<rooms, selVars, inv, rinv>>

CreateRejects ==
    /\ chat.pc = "creating"
    /\ chat' = [chat EXCEPT !.pc = "done", !.settled = "rejected",
                            !.dialogs = Append(@, "Failed to invite user")]
    /\ UNCHANGED <<rooms, selVars, inv, rinv>>

\* ------------------------------------------------------------------------
\* inviteMultipleToRoom, _onRoomInviteFinished and _showAnyInviteErrors
\* ------------------------------------------------------------------------
InviteAddrs == {"a1", "a2", "a3"}

\* The address lists of the picker: up to MaxAddrs different addresses.
InviteAddrLists ==
    UNION {{a \in [1..k -> InviteAddrs] : \A x, y \in 1..k : x # y => a[x] # a[y]} :
              k \in 0..MaxAddrs}

\* The states object the inviter resolves with, as its entries <<address,
\* outcome>> in key order: the first n of the addresses, each 'invited' or
\* 'error'.
InviteStates(addrs) ==
    UNION {{[k \in 1..n |-> <<addrs[k], o[k]>>] : o \in [1..n -> {"invited", "error"}]} :
              n \in 0..Len(addrs)}

\* What the multi-invite can reject with: an error with or without a message.
InviteFailures == {[message |-> "M_FORBIDDEN"], [stack |-> "s"]}

\* inviter.getErrorText(addr)
ErrorText(addr) == <<"error text of", addr>>

IsError(entry) == entry[2] = "error"

\* A variant that takes every recipient for a failed one.
FailedUsers_all(states) == states

\* Object.keys(addrs).filter(a => addrs[a] === 'error'), as entries
FailedUsers(states) == SelectSeq(states, IsError)

\* The dialogs _showAnyInviteErrors(addrs, room, inviter) creates; it returns
\* addrs.
_showAnyInviteErrors(states, fatal) ==
    LET failedUsers == FailedUsers(states)
    IN IF Len(failedUsers) = 1 /\ fatal
       THEN << [title |-> "Failed to invite users to the room:",
                description |-> <<ErrorText(failedUsers[1][1])>>] >>
       ELSE LET errors == SelectSeq(failedUsers, IsError)
                errorList == [k \in 1..Len(errors) |->
                                 <<errors[k][1], ErrorText(errors[k][1])>>]
            IN IF Len(errorList) > 0
               THEN << [title |-> "Failed to invite the following users to the %(roomName)s room:",
                        description |-> errorList] >>
               ELSE << >>

\* The run of _onRoomInviteFinished:
\*   pc        "idle", "inviting", "done"
\*   addrs     the addresses handed to inviter.invite
\*   calls     the calls of inviter.invite, in order
\*   states    the states object the multi-invite resolved with
\*   fatal     inviter.fatal
\*   settled   how the multi-invite settled
\*   dialogs   the error dialogs created, in order
\*   returned  what _showAnyInviteErrors returned
RoomInviteStart ==
    [pc |-> "idle", addrs |-> <<>>, calls |-> <<>>, states |-> <<>>,
     fatal |-> FALSE, settled |-> "none", dialogs |-> <<>>,
     returned |-> <<"nothing">>]

RoomInviteIdle == rinv = RoomInviteStart

RoomInviteFinished(shouldInvite, addrs) ==
    /\ rinv.pc = "idle"
    /\ rinv' = IF ~shouldInvite THEN [rinv EXCEPT !.pc = "done"]
               ELSE [rinv EXCEPT !.pc = "inviting", !.addrs = addrs,
                                 !.calls = Append(@, <<"MultiInviter.invite", addrs>>)]
    /\ UNCHANGED <<rooms, selVars, inv, chat>>

\* inviter.invite resolves: the .then callback of line 186.
MultiInviteResolves(states, fatal) ==
    /\ rinv.pc = "inviting"
    /\ rinv' = [rinv EXCEPT !.pc = "done", !.settled = "resolved",
                            !.states = states, !.fatal = fatal,
                            !.dialogs = @ \o _showAnyInviteErrors(states, fatal),
                            !.returned = states]
    /\ UNCHANGED <<rooms, selVars, inv, chat>>

\* inviter.invite rejects: the .catch callback of line 189.
MultiInviteRejects(err) ==
    /\ rinv.pc = "inviting"
    /\ rinv' = [rinv EXCEPT !.pc = "done", !.settled = "rejected",
                            !.dialogs = Append(@,
                                [title |-> "Failed to invite",
                                 description |-> IF "message" \in DOMAIN err
                                                 THEN err.message
                                                 ELSE "Operation failed"])]
    /\ UNCHANGED <<rooms, selVars, inv, chat>>

\* ------------------------------------------------------------------------
\* The specifications
\* ------------------------------------------------------------------------
\* The target is another user or the caller's own id.
InitSelect ==
    /\ (userId = "u1" \/ userId = Me)
    /\ \E k \in 0..MaxRooms : rooms \in RoomLists(k)
    /\ SelectIdle
    /\ AsyncIdle
    /\ ChatIdle
    /\ RoomInviteIdle

NextSelect == SelectStart \/ ScanRoom \/ SelectFinish

SpecSelect == InitSelect /\ [][NextSelect]_vars

Outcomes == {Fulfilled(v) : v \in Values} \cup {Rejected(e) : e \in Errors}

InitAsync ==
    /\ rooms = <<>>
    /\ userId = "u1"
    /\ SelectIdle
    /\ AsyncIdle
    /\ ChatIdle
    /\ RoomInviteIdle

NextAsync ==
    \E i \in Inv :
        \/ \E id \in Ids, fn \in FnKinds, d \in DispatchKinds :
              Invoke(i, id, fn, d)
        \/ \E o \in Outcomes : Settle(i, o)
        \/ ThenReaction(i)
        \/ CatchReaction(i)

SpecAsync == InitAsync /\ [][NextAsync]_vars

InitChat ==
    /\ \E k \in 0..MaxRooms : rooms \in RoomLists(k)
    /\ userId = "u1"
    /\ SelectIdle
    /\ AsyncIdle
    /\ ChatIdle
    /\ RoomInviteIdle

NextChat ==
    \/ \E shouldInvite \in BOOLEAN, addrs \in AddrLists : StartChat(shouldInvite, addrs)
    \/ \E res \in LookupResults : LookupResolves(res)
    \/ LookupRejects
    \/ JoinResolves
    \/ JoinRejects
    \/ \E how \in {"resolved", "rejected"} : InviteSettles(how)
    \/ CreateResolves
    \/ CreateRejects

SpecChat == InitChat /\ [][NextChat]_vars

InitInvite ==
    /\ rooms = <<>>
    /\ userId = "u1"
    /\ SelectIdle
    /\ AsyncIdle
    /\ ChatIdle
    /\ RoomInviteIdle

NextInvite ==
    \/ \E shouldInvite \in BOOLEAN, addrs \in InviteAddrLists :
          RoomInviteFinished(shouldInvite, addrs)
    \/ \E states \in InviteStates(rinv.addrs), fatal \in BOOLEAN :
          MultiInviteResolves(states, fatal)
    \/ \E err \in InviteFailures : MultiInviteRejects(err)

SpecInvite == InitInvite /\ [][NextInvite]_vars

\* ------------------------------------------------------------------------
\* Properties of the selector (SpecSelect)
\* ------------------------------------------------------------------------
\* The ranking table of the specification, for the room at index i of rooms.
TableWeight(my, his) ==
    CASE my = "join" /\ his = "join" -> 4
      [] my = "invite" /\ his = "join" -> 3
      [] my = "join" /\ his = "invite" -> 2
      [] my = "join" /\ his = "leave" -> 1
      [] OTHER -> 0

TableStatus(w) ==
    CASE w = 4 -> "join-join"
      [] w = 3 -> "invite-join"
      [] w = 2 -> "join-invite"
      [] w = 1 -> "join-leave"
      [] OTHER -> NullStatus

WeightAt(i) == TableWeight(rooms[i].myMembership, rooms[i].members[userId])
DateAt(i) == RoomCreateEventDate(rooms[i])
Filtered == {roomList[j] : j \in 1..Len(roomList)}

\* C1: when a two-party room of positive weight is iterated before a
\* two-party room whose membership pair is none of the four ranked ones, the
\* final result is still the earlier, positive-weight room.
C1_LaterRejectionKeepsBest ==
    (/\ spc = "done"
     /\ Len(roomList) = 2
     /\ WeightAt(roomList[1]) > 0
     /\ WeightAt(roomList[2]) = 0)
    => (result # NullResult /\ result.room = roomList[1])

\* C2: the call returns null exactly when no filtered room has a positive
\* weight, and otherwise a candidate of the maximum weight over the filtered
\* rooms with the smallest creation timestamp among the rooms of that weight.
C2_MaxWeightEarliest ==
    spc = "done" =>
        LET pos == {i \in Filtered : WeightAt(i) > 0}
        IN IF pos = {}
           THEN result = NullResult
           ELSE /\ result # NullResult
                /\ result.room \in pos
                /\ \A i \in pos : WeightAt(i) <= result.weight
                /\ WeightAt(result.room) = result.weight
                /\ \A i \in pos :
                      WeightAt(i) = result.weight => result.date <= DateAt(i)
                /\ DateAt(result.room) = result.date

\* C7: every room kept by _getDirectMessageRooms, and so any room returned,
\* has exactly two membership entries, the target user and the caller; a room
\* of three or more members is never a candidate; when no room has exactly
\* those two members the call returns null.
HasExactlyTheTwo(r) ==
    /\ Cardinality(DOMAIN r.members) = 2
    /\ \E a, b \in DOMAIN r.members : a # b /\ a = userId /\ b = Me

C7_OnlyTargetAndCaller ==
    /\ spc # "start" => \A i \in Filtered : HasExactlyTheTwo(rooms[i])
    /\ spc = "done" =>
          /\ result # NullResult => HasExactlyTheTwo(rooms[result.room])
          /\ (\A i \in 1..Len(rooms) : ~HasExactlyTheTwo(rooms[i]))
                => result = NullResult

\* C8: when exactly one room passes the two-party filter, the result is fixed
\* by that room's (caller membership, target membership) pair: join/join gives
\* the room with status join-join and weight 4, invite/join invite-join and 3,
\* join/invite join-invite and 2, join/leave join-leave and 1, every other
\* pair null; exactly one of the five cases applies.
C8_SingleRoomTable ==
    (spc = "done" /\ Len(roomList) = 1) =>
        LET i == roomList[1]
            my == rooms[i].myMembership
            his == rooms[i].members[userId]
            cases == << my = "join" /\ his = "join",
                        my = "invite" /\ his = "join",
                        my = "join" /\ his = "invite",
                        my = "join" /\ his = "leave",
                        ~(my = "join" /\ his \in {"join", "invite", "leave"})
                           /\ ~(my = "invite" /\ his = "join") >>
            hit(st, w) == /\ result # NullResult
                          /\ result.room = i
                          /\ result.status = st
                          /\ result.weight = w
        IN /\ Cardinality({c \in 1..5 : cases[c]}) = 1
           /\ cases[1] => hit("join-join", 4)
           /\ cases[2] => hit("invite-join", 3)
           /\ cases[3] => hit("join-invite", 2)
           /\ cases[4] => hit("join-leave", 1)
           /\ cases[5] => result = NullResult

C8_Witness ==
    /\ spc = "done"
    /\ Len(rooms) > 1
    /\ Len(roomList) = 1
    /\ rooms[roomList[1]].myMembership = "invite"
    /\ rooms[roomList[1]].members[userId] = "join"
    /\ result # NullResult
    /\ result.status = "invite-join"

\* C9: when a room of positive weight w and creation timestamp d is
\* processed, it replaces the best-so-far candidate if and only if w is
\* greater than the best's weight, or w equals it and d is strictly smaller
\* than the best's timestamp; otherwise the best is unchanged.  So of two
\* join/join rooms with timestamps T1 < T2, in either order, the one with T1
\* is returned.
C9_StepRule ==
    (spc = "scan" /\ idx <= Len(roomList) /\ idx' = idx + 1
        /\ WeightAt(roomList[idx]) > 0) =>
        LET i == roomList[idx]
            w == WeightAt(i)
            d == DateAt(i)
            wins == \/ w > selectedRoom.weight
                    \/ (w = selectedRoom.weight /\ d < selectedRoom.date)
        IN IF wins
           THEN selectedRoom' =
                  [room |-> i, status |-> TableStatus(w), date |-> d, weight |-> w]
           ELSE selectedRoom' = selectedRoom

C9_TwoJoinJoin ==
    (/\ spc = "done"
     /\ Len(roomList) = 2
     /\ WeightAt(roomList[1]) = 4
     /\ WeightAt(roomList[2]) = 4
     /\ DateAt(roomList[1]) # DateAt(roomList[2]))
    => /\ result # NullResult
       /\ result.room \in Filtered
       /\ \A i \in Filtered : DateAt(result.room) <= DateAt(i)

C9_ReplaceRule == [][C9_StepRule]_vars /\ []C9_TwoJoinJoin

C9_Witness ==
    /\ spc = "done"
    /\ Len(roomList) = 2
    /\ WeightAt(roomList[1]) = 4
    /\ WeightAt(roomList[2]) = 4
    /\ DateAt(roomList[2]) < DateAt(roomList[1])
    /\ result # NullResult
    /\ result.room = roomList[2]

\* ------------------------------------------------------------------------
\* Properties of asyncAction (SpecAsync)
\* ------------------------------------------------------------------------
SuffixOf(a) == a.action[2]
CountOf(log, suffix) == Cardinality({k \in 1..Len(log) : SuffixOf(log[k]) = suffix})
OperationSettled(c) == c.p1.state # "pending"

\* C3: for every invocation whose operation settles, whatever the dispatch
\* callback does (also when it raises on the '.success' action), exactly one
\* of '<id>.success' and '<id>.failure' is dispatched, never both and never
\* neither, and it is dispatched after '<id>.pending'.
C3_ExactlyOneOutcome ==
    \A i \in Inv :
        LET c == inv[i]
            outcomes == CountOf(c.log, "success") + CountOf(c.log, "failure")
        IN /\ ~(CountOf(c.log, "success") > 0 /\ CountOf(c.log, "failure") > 0)
           /\ outcomes <= 1
           /\ (OperationSettled(c) /\ c.pc = "done") => outcomes = 1
           /\ \A k \in 1..Len(c.log) :
                 SuffixOf(c.log[k]) \in {"success", "failure"} =>
                    (k > 1 /\ c.log[1] = [action |-> <<c.id, "pending">>])

\* C5: when fn's promise resolves with V, the actions passed to dispatch are
\* exactly {action: id.pending} then {action: id.success, result: V}, and no
\* '.failure' action.
C5_ResolveSequence ==
    \A i \in Inv :
        LET c == inv[i]
        IN c.p1.state = "fulfilled" =>
              /\ CountOf(c.log, "failure") = 0
              /\ c.pc = "done" =>
                    c.log = << [action |-> <<c.id, "pending">>],
                               [action |-> <<c.id, "success">>, result |-> c.p1.value] >>

\* C6: when fn's promise rejects with E, the actions passed to dispatch are
\* exactly {action: id.pending} then {action: id.failure, err: E}, and no
\* '.success' action.
C6_RejectSequence ==
    \A i \in Inv :
        LET c == inv[i]
            want == << [action |-> <<c.id, "pending">>],
                       [action |-> <<c.id, "failure">>, err |-> c.p1.value] >>
        IN c.p1.state = "rejected" =>
              /\ CountOf(c.log, "success") = 0
              /\ Len(c.log) <= 2
              /\ \A k \in 1..Len(c.log) : c.log[k] = want[k]
              /\ c.pc = "done" => c.log = want

C6_Witness ==
    \E i \in Inv :
        /\ inv[i].pc = "done"
        /\ inv[i].p1 = Rejected("bad")
        /\ "failure" \in inv[i].dispatch
        /\ Len(inv[i].log) = 2
        /\ SuffixOf(inv[i].log[2]) = "failure"

\* C10: with several invocations outstanding and their operations settling in
\* any order, each invocation's dispatch receives exactly its own '.pending'
\* action followed by the outcome action of its own operation (own id, own
\* result or err), and no action of another invocation.
C10_OwnActionsOnly ==
    \A i \in Inv :
        LET c == inv[i]
            own == << [action |-> <<c.id, "pending">>] >> \o
                   (IF c.p1.state = "fulfilled"
                    THEN << [action |-> <<c.id, "success">>, result |-> c.p1.value] >>
                    ELSE IF c.p1.state = "rejected"
                    THEN << [action |-> <<c.id, "failure">>, err |-> c.p1.value] >>
                    ELSE << >>)
        IN /\ Len(c.log) <= Len(own)
           /\ \A k \in 1..Len(c.log) : c.log[k] = own[k]
           /\ c.pc = "done" => c.log = own

\* ------------------------------------------------------------------------
\* Properties of the start-chat flow (SpecChat)
\* ------------------------------------------------------------------------
LookupSucceeded == chat.invited # "none"

\* C4: once the lookup of a known address has succeeded, if the caller's rooms
\* include a two-party room with the resolved target in which both are
\* 'join', createRoom is not called and a 'view_room' action for an existing
\* room with that user is dispatched, whatever other rooms exist and in
\* whatever order.
C4_NoDuplicateRoom ==
    (/\ LookupSucceeded
     /\ chat.invited # Me
     /\ \E i \in 1..Len(rooms) :
           /\ DOMAIN rooms[i].members = {Me, chat.invited}
           /\ rooms[i].myMembership = "join"
           /\ rooms[i].members[chat.invited] = "join")
    => /\ \A k \in 1..Len(chat.calls) : chat.calls[k][1] # "createRoom"
       /\ \E k \in 1..Len(chat.dispatched) :
             /\ chat.dispatched[k].action = "view_room"
             /\ chat.invited \in DOMAIN rooms[chat.dispatched[k].room_id].members

\* C11: every invocation dispatches {action: id.pending} exactly once, as its
\* first action, before the returned function returns, before fn is invoked
\* and before the operation settles.
C11_PendingFirst ==
    \A i \in Inv :
        LET c == inv[i]
        IN c.pc # "idle" =>
              /\ Len(c.log) >= 1
              /\ c.log[1] = [action |-> <<c.id, "pending">>]
              /\ CountOf(c.log, "pending") = 1
              /\ c.fnCalledAt # NotCalled => c.fnCalledAt = 1
              /\ OperationSettled(c) => c.fnCalledAt = 1

C11_Witness ==
    \E i \in Inv :
        /\ inv[i].pc = "waiting"
        /\ inv[i].fnCalledAt = 1
        /\ inv[i].log = << [action |-> <<"foo", "pending">>] >>
        /\ \E j \in Inv : j # i /\ inv[j].pc = "done" /\ Len(inv[j].log) = 2

\* C13: for an invocation whose operation never settles, no '.success' and
\* no '.failure' action is ever dispatched: '.pending' stays the only action
\* the invocation has dispatched.
C13_UnsettledOnlyPending ==
    \A i \in Inv :
        LET c == inv[i]
        IN /\ (c.pc # "idle" /\ ~OperationSettled(c)) =>
                 /\ CountOf(c.log, "success") = 0
                 /\ CountOf(c.log, "failure") = 0
                 /\ c.log = << [action |-> <<c.id, "pending">>] >>
           /\ c.fn = "never" => ~OperationSettled(c)

C13_Witness ==
    \E i \in Inv :
        /\ inv[i].fn = "never"
        /\ inv[i].pc = "waiting"
        /\ inv[i].log = << [action |-> <<inv[i].id, "pending">>] >>
        /\ \A j \in Inv \ {i} : inv[j].pc = "done"

\* C18: if fn raises when it is invoked, the returned function has already
\* dispatched '<id>.pending', dispatches neither '<id>.success' nor
\* '<id>.failure', and the exception reaches its caller.
C18_SyncRaisePropagates ==
    \A i \in Inv :
        LET c == inv[i]
        IN (c.fn = "raises" /\ c.fnCalledAt # NotCalled) =>
              /\ c.pc = "threw"
              /\ c.raised = FnError
              /\ c.log = << [action |-> <<c.id, "pending">>] >>
              /\ ~OperationSettled(c)

C18_Witness ==
    \E i \in Inv :
        /\ inv[i].fn = "raises"
        /\ inv[i].fnCalledAt = 1
        /\ inv[i].pc = "threw"
        /\ inv[i].raised = FnError
        /\ \A j \in Inv \ {i} : inv[j].pc = "done"

\* ------------------------------------------------------------------------
\* More properties of the selector (SpecSelect)
\* ------------------------------------------------------------------------
\* C17: every room that reaches the classification step has a membership
\* entry for the target user, so reading the target's membership never fails
\* inside the scan.
C17_TargetAlwaysPresent ==
    /\ spc # "threw"
    /\ spc # "start" =>
          \A j \in 1..Len(roomList) : userId \in DOMAIN rooms[roomList[j]].members

C17_Witness ==
    /\ spc = "done"
    /\ Len(roomList) >= 1
    /\ Len(roomList) < Len(rooms)
    /\ \E i \in 1..Len(rooms) : userId \notin DOMAIN rooms[i].members
    /\ result # NullResult

\* ------------------------------------------------------------------------
\* More properties of the start-chat flow (SpecChat)
\* ------------------------------------------------------------------------
SelectedStatus == IF chat.selected # NullResult THEN chat.selected.status ELSE NullStatus
InviteCalls ==
    {k \in 1..Len(chat.calls) : chat.calls[k][1] \in {"invite", "inviteByEmail"}}
CallsOf(op) == {k \in 1..Len(chat.calls) : chat.calls[k][1] = op}

\* C14: _inviteToRoom raises 'Unsupported address', without calling an invite
\* operation of the client, exactly when the address type is neither 'email'
\* nor 'mx-user-id'; for 'email' it calls inviteByEmail and for 'mx-user-id'
\* invite, once, with the given room id and address; the error reaches the
\* caller (whose handler shows the dialog and dispatches nothing).
C14_InviteToRoomByType ==
    /\ SelectedStatus # "join-leave" => InviteCalls = {}
    /\ SelectedStatus = "join-leave" =>
          LET a == chat.addrTexts
              t == getAddressType(a)
              raised == /\ chat.dialogs = <<"Failed to invite user">>
                        /\ chat.dispatched = <<>>
                        /\ chat.pc = "done"
          IN /\ (t \notin {"email", "mx-user-id"}) <=> raised
             /\ raised <=> InviteCalls = {}
             /\ Cardinality(InviteCalls) <= 1
             /\ t = "email" =>
                   \E k \in InviteCalls :
                       chat.calls[k] = <<"inviteByEmail", chat.selected.room, a>>
             /\ t = "mx-user-id" =>
                   \E k \in InviteCalls :
                       chat.calls[k] = <<"invite", chat.selected.room, a>>

C14_Witness ==
    /\ SelectedStatus = "join-leave"
    /\ chat.addrTexts = "x"
    /\ InviteCalls = {}
    /\ chat.dialogs = <<"Failed to invite user">>

\* C15: when the selected room has status invite-join, 'view_room' for that
\* room is dispatched only after joinRoom for it has succeeded; if joinRoom
\* fails, no 'view_room' is dispatched, no room is created and a 'Failed to
\* join room' dialog is shown.
C15_ViewAfterJoin ==
    SelectedStatus = "invite-join" =>
        /\ CallsOf("joinRoom") # {}
        /\ \A k \in CallsOf("joinRoom") : chat.calls[k] = <<"joinRoom", chat.selected.room>>
        /\ CallsOf("createRoom") = {}
        /\ chat.dispatched # <<>> =>
              /\ chat.settled = "resolved"
              /\ chat.dispatched = <<[action |-> "view_room", room_id |-> chat.selected.room]>>
              /\ chat.dialogs = <<>>
        /\ chat.settled = "resolved" => chat.dispatched # <<>>
        /\ chat.settled = "rejected" =>
              /\ chat.dispatched = <<>>
              /\ chat.dialogs = <<"Failed to join room">>

C15_Witness ==
    /\ SelectedStatus = "invite-join"
    /\ chat.settled = "rejected"
    /\ chat.dispatched = <<>>
    /\ chat.dialogs = <<"Failed to join room">>
    /\ Len(rooms) = 2

\* ------------------------------------------------------------------------
\* Properties of the room-invite flow (SpecInvite)
\* ------------------------------------------------------------------------
ErrorEntries == {k \in 1..Len(rinv.states) : rinv.states[k][2] = "error"}

\* C16: given the outcome map of a multi-invite, _showAnyInviteErrors shows
\* an error dialog if and only if at least one recipient's outcome is
\* 'error'; at most one dialog; it reports every failed recipient, or only
\* the single failed recipient's error text when exactly one failed and the
\* inviter is flagged fatal; recipients that succeeded are not reported; the
\* outcome map is returned unchanged.
C16_InviteErrorsDialog ==
    rinv.settled = "resolved" =>
        /\ Len(rinv.dialogs) <= 1
        /\ (Len(rinv.dialogs) = 1) <=> (ErrorEntries # {})
        /\ rinv.returned = rinv.states
        /\ Len(rinv.dialogs) = 1 =>
              LET d == rinv.dialogs[1].description
              IN IF Cardinality(ErrorEntries) = 1 /\ rinv.fatal
                 THEN \E k \in ErrorEntries :
                          d = << <<"error text of", rinv.states[k][1]>> >>
                 ELSE /\ Len(d) = Cardinality(ErrorEntries)
                      /\ \A k \in ErrorEntries : \E j \in 1..Len(d) :
                            d[j] = <<rinv.states[k][1],
                                     <<"error text of", rinv.states[k][1]>>>>
                      /\ \A j \in 1..Len(d) : \E k \in ErrorEntries :
                            d[j][1] = rinv.states[k][1]

C16_Witness ==
    /\ rinv.settled = "resolved"
    /\ Len(rinv.states) = 2
    /\ Cardinality(ErrorEntries) = 1
    /\ ~rinv.fatal
    /\ Len(rinv.dialogs) = 1
    /\ Len(rinv.dialogs[1].description) = 1

====
